---- MODULE Spec2Model ----
(***************************************************************************)
(* Model of satellite_monitor.py: the SatelliteMonitor violation tracker.  *)
(*                                                                         *)
(* A timestamp text is the record [ymd, hms, frac]: the zero-padded date   *)
(* and time fields of "YYYYMMDD HH:MM:SS" and the digits written after the *)
(* dot (<<>> when the text has no fractional part).  Two texts are the     *)
(* same Python string exactly when the records are equal.  Floats are the  *)
(* small integers they hold exactly.                                       *)
(***************************************************************************)
EXTENDS Integers, Sequences, FiniteSets, TLC

VARIABLES readings, alerts, fed, out, file, pos, status

vars == <<readings, alerts, fed, out, file, pos, status>>

\* the state of a process_file run: the lines, the next line, how it ended
filevars == <<file, pos, status>>

TSTAT == "TSTAT"
BATT == "BATT"

\* Bounds of the model.
MaxReadings == 4
MaxRun == 6
MaxLines == 4
MaxLimits == 4
MaxRender == 4
MaxKeys == 6
MaxOrder == 5

-----------------------------------------------------------------------------
(* datetime / timedelta arithmetic as the standard library computes it     *)

ValueError == [exception |-> "ValueError"]

IsLeap(y) == (y % 4 = 0) /\ ((y % 100 # 0) \/ (y % 400 = 0))

DaysInMonth(y, m) ==
    IF m = 2 THEN (IF IsLeap(y) THEN 29 ELSE 28)
    ELSE IF m \in {4, 6, 9, 11} THEN 30 ELSE 31

RECURSIVE DaysBeforeMonth(_, _)
DaysBeforeMonth(y, m) ==
    IF m <= 1 THEN 0 ELSE DaysBeforeMonth(y, m - 1) + DaysInMonth(y, m - 1)

DaysBeforeYear(y) ==
    (y - 1) * 365 + ((y - 1) \div 4) - ((y - 1) \div 100) + ((y - 1) \div 400)

\* datetime.toordinal()
Ordinal(dt) ==
    DaysBeforeYear(dt.year) + DaysBeforeMonth(dt.year, dt.month) + dt.day

\* value of the digits of %f, right-padded with zeros to six digits
RECURSIVE FracMicros(_, _)
FracMicros(digits, scale) ==
    IF digits = <<>> THEN 0
    ELSE Head(digits) * scale + FracMicros(Tail(digits), scale \div 10)

FieldsValid(text) ==
    /\ text.ymd[1] \in 1..9999
    /\ text.ymd[2] \in 1..12
    /\ text.ymd[3] \in 1..DaysInMonth(text.ymd[1], text.ymd[2])
    /\ text.hms[1] \in 0..23
    /\ text.hms[2] \in 0..59
    /\ text.hms[3] \in 0..59

MakeDatetime(text) ==
    [year |-> text.ymd[1], month |-> text.ymd[2], day |-> text.ymd[3],
     hour |-> text.hms[1], minute |-> text.hms[2], second |-> text.hms[3],
     microsecond |-> FracMicros(text.frac, 100000)]

\* datetime.strptime(text, '%Y%m%d %H:%M:%S.%f')
strptime_frac(text) ==
    IF Len(text.frac) \in 1..6 /\ FieldsValid(text)
    THEN MakeDatetime(text) ELSE ValueError

\* datetime.strptime(text, '%Y%m%d %H:%M:%S')
strptime_whole(text) ==
    IF text.frac = <<>> /\ FieldsValid(text)
    THEN MakeDatetime(text) ELSE ValueError

\* the try/except of process_telemetry and get_alerts
parse_timestamp(text) ==
    IF strptime_frac(text) # ValueError THEN strptime_frac(text)
    ELSE strptime_whole(text)

\* datetime comparison (the sort key)
DtTuple(dt) ==
    <<dt.year, dt.month, dt.day, dt.hour, dt.minute, dt.second, dt.microsecond>>

RECURSIVE LexLeq(_, _)
LexLeq(a, b) ==
    IF a = <<>> THEN TRUE
    ELSE IF Head(a) < Head(b) THEN TRUE
    ELSE IF Head(a) > Head(b) THEN FALSE
    ELSE LexLeq(Tail(a), Tail(b))

DtLeq(a, b) == LexLeq(DtTuple(a), DtTuple(b))

\* datetime.__sub__: a normalised timedelta (days, seconds, microseconds)
DtSub(a, b) ==
    LET d  == Ordinal(a) - Ordinal(b)
        s  == (a.hour * 3600 + a.minute * 60 + a.second)
              - (b.hour * 3600 + b.minute * 60 + b.second)
        u  == a.microsecond - b.microsecond
        s2 == s + (u \div 1000000)
    IN [days |-> d + (s2 \div 86400),
        seconds |-> s2 % 86400,
        microseconds |-> u % 1000000]

TdTuple(td) == <<td.days, td.seconds, td.microseconds>>

\* timedelta.__le__
TdLeqStrict(a, b) == TdTuple(a) # TdTuple(b) /\ LexLeq(TdTuple(a), TdTuple(b))
TdLeq(a, b) == LexLeq(TdTuple(a), TdTuple(b))

\* self.time_window = timedelta(minutes=5)
time_window == [days |-> 0, seconds |-> 300, microseconds |-> 0]

-----------------------------------------------------------------------------
(* check_violations                                                        *)

Range(s) == {s[i] : i \in 1..Len(s)}

\* the comprehension filters of the TSTAT and BATT branches
IsViolatingNonStrict(component, r) ==
    IF component = TSTAT THEN r.value >= r.limit
    ELSE IF component = BATT THEN r.value <= r.limit
    ELSE FALSE
IsViolating(component, r) ==
    IF component = TSTAT THEN r.value > r.limit
    ELSE IF component = BATT THEN r.value < r.limit
    ELSE FALSE

RECURSIVE Filter(_, _)
Filter(component, rs) ==
    IF rs = <<>> THEN <<>>
    ELSE IF IsViolating(component, Head(rs))
         THEN <<Head(rs)>> \o Filter(component, Tail(rs))
         ELSE Filter(component, Tail(rs))

\* list.sort(key=timestamp): stable, ascending
RECURSIVE InsertSorted(_, _)
InsertSorted(sorted, r) ==
    IF sorted = <<>> THEN <<r>>
    ELSE IF DtLeq(Head(sorted).timestamp, r.timestamp)
         THEN <<Head(sorted)>> \o InsertSorted(Tail(sorted), r)
         ELSE <<r>> \o sorted

RECURSIVE SortFrom(_, _)
SortFrom(acc, rs) ==
    IF rs = <<>> THEN acc ELSE SortFrom(InsertSorted(acc, Head(rs)), Tail(rs))

SortUnsorted(rs) == rs
SortByTimestamp(rs) == SortFrom(<<>>, rs)

Severity(component) == IF component = TSTAT THEN "RED HIGH" ELSE "RED LOW"

\* the window test of the loop body
WithinWindow(v, i) ==
    TdLeq(DtSub(v[i + 2].timestamp, v[i].timestamp), time_window)

MakeAlert(key, r1) ==
    [satelliteId |-> key[1], severity |-> Severity(key[2]),
     component |-> key[2], timestamp |-> r1.original_timestamp]

\* if alert not in self.alerts: self.alerts.append(alert)
AddAlertNoCheck(al, alert) == Append(al, alert)
AddAlertByTimestamp(al, alert) ==
    IF \E a \in Range(al) : a.timestamp = alert.timestamp THEN al
    ELSE Append(al, alert)
AddAlertFront(al, alert) ==
    IF alert \in Range(al) THEN al ELSE <<alert>> \o al
AddAlert(al, alert) ==
    IF alert \in Range(al) THEN al ELSE Append(al, alert)

\* for i in range(len(violating_readings) - 2): ... break
RECURSIVE ScanNoBreak(_, _, _, _)
ScanNoBreak(key, v, i, al) ==
    IF i > Len(v) - 2 THEN al
    ELSE IF WithinWindow(v, i)
         THEN ScanNoBreak(key, v, i + 1, AddAlert(al, MakeAlert(key, v[i])))
         ELSE ScanNoBreak(key, v, i + 1, al)
RECURSIVE ScanReportThird(_, _, _, _)
ScanReportThird(key, v, i, al) ==
    IF i > Len(v) - 2 THEN al
    ELSE IF WithinWindow(v, i) THEN AddAlert(al, MakeAlert(key, v[i + 2]))
    ELSE ScanReportThird(key, v, i + 1, al)
RECURSIVE ScanBackward(_, _, _, _)
ScanBackward(key, v, i, al) ==
    LET j == Len(v) - 1 - i
    IN IF j < 1 THEN al
       ELSE IF WithinWindow(v, j) THEN AddAlert(al, MakeAlert(key, v[j]))
       ELSE ScanBackward(key, v, i + 1, al)
RECURSIVE Scan(_, _, _, _)
Scan(key, v, i, al) ==
    IF i > Len(v) - 2 THEN al
    ELSE IF WithinWindow(v, i) THEN AddAlert(al, MakeAlert(key, v[i]))
    ELSE Scan(key, v, i + 1, al)

\* the alert list after check_violations(key) on history rs
check_violations_any(key, rs, al) ==
    LET comp == IF key[2] = TSTAT THEN TSTAT ELSE BATT
        v == Filter(comp, rs)
    IN IF Len(v) >= 3 THEN Scan(key, SortByTimestamp(v), 1, al) ELSE al
check_violations(key, rs, al) ==
    IF key[2] \notin {TSTAT, BATT} THEN al
    ELSE LET v == Filter(key[2], rs)
         IN IF Len(v) >= 3 THEN Scan(key, SortByTimestamp(v), 1, al) ELSE al

-----------------------------------------------------------------------------
(* process_telemetry, get_alerts                                           *)

KeyOf(data) == <<data.satelliteId, data.component>>

MakeReadingYellow(data) ==
    [timestamp |-> parse_timestamp(data.timestamp),
     value |-> data.raw_value,
     limit |-> IF data.component = TSTAT THEN data.yellow_high_limit
               ELSE data.yellow_low_limit,
     original_timestamp |-> data.timestamp]
MakeReading(data) ==
    [timestamp |-> parse_timestamp(data.timestamp),
     value |-> data.raw_value,
     limit |-> IF data.component = TSTAT THEN data.red_high_limit
               ELSE data.red_low_limit,
     original_timestamp |-> data.timestamp]

\* self.readings is a defaultdict(list)
Hist(rd, key) == IF key \in DOMAIN rd THEN rd[key] ELSE <<>>

AppendReadingSorted(rd, key, r) ==
    IF key \in DOMAIN rd
    THEN [rd EXCEPT ![key] = SortByTimestamp(Append(@, r))]
    ELSE rd @@ (key :> <<r>>)
AppendReading(rd, key, r) ==
    IF key \in DOMAIN rd THEN [rd EXCEPT ![key] = Append(@, r)]
    ELSE rd @@ (key :> <<r>>)

process_telemetry(data) ==
    /\ parse_timestamp(data.timestamp) # ValueError
    /\ LET key == KeyOf(data)
           rd  == AppendReading(readings, key, MakeReading(data))
       IN /\ readings' = rd
          /\ alerts' = check_violations(key, rd[key], alerts)
    /\ fed' = Append(fed, data)
    /\ UNCHANGED out

\* process_telemetry as a function of the tracker state, and a sequence of calls
IngestPure(st, data) ==
    LET key == KeyOf(data)
        rd  == AppendReading(st.readings, key, MakeReading(data))
    IN [readings |-> rd,
        alerts |-> check_violations(key, rd[key], st.alerts)]

RECURSIVE Replay(_, _)
Replay(st, ds) ==
    IF ds = <<>> THEN st ELSE Replay(IngestPure(st, Head(ds)), Tail(ds))

Fresh == [readings |-> <<>>, alerts |-> <<>>]

\* six-digit rendering of %f
Digits6(us) ==
    <<(us \div 100000) % 10, (us \div 10000) % 10, (us \div 1000) % 10,
      (us \div 100) % 10, (us \div 10) % 10, us % 10>>

\* dt.strftime('%Y-%m-%dT%H:%M:%S.%f')[:-3] + 'Z'
RenderRounded(dt) ==
    [date |-> <<dt.year, dt.month, dt.day>>,
     time |-> <<dt.hour, dt.minute, dt.second>>,
     millis |-> SubSeq(Digits6((((dt.microsecond + 500) \div 1000) % 1000) * 1000), 1, 3)]
Render(dt) ==
    [date |-> <<dt.year, dt.month, dt.day>>,
     time |-> <<dt.hour, dt.minute, dt.second>>,
     millis |-> SubSeq(Digits6(dt.microsecond), 1, 3)]

FormatAlert(alert) ==
    [satelliteId |-> alert.satelliteId, severity |-> alert.severity,
     component |-> alert.component,
     timestamp |-> Render(parse_timestamp(alert.timestamp))]

formatted_alerts(al) == [i \in 1..Len(al) |-> FormatAlert(al[i])]

get_alerts ==
    /\ out' = formatted_alerts(alerts)
    /\ UNCHANGED <<readings, alerts, fed>>

-----------------------------------------------------------------------------
(* parse_line, process_file, main                                          *)
(* A raw line is [blank, fields]: blank when line.strip() is empty, fields *)
(* the result of split('|').  Field 1 is a timestamp text, fields 2..7 are *)
(* numeric texts [ok, val] (ok = FALSE: not a number), field 8 is the      *)
(* component code.                                                         *)

IndexError == [exception |-> "IndexError"]

IsError(x) == x \in {ValueError, IndexError}

\* the dict literal is evaluated field by field: the first bad one raises
parse_line(line) ==
    LET f == line.fields
        bad == {i \in 1..8 : i > Len(f) \/ (i \in 2..7 /\ ~f[i].ok)}
    IN IF bad # {}
       THEN (IF (CHOOSE i \in bad : \A j \in bad : i <= j) > Len(f)
             THEN IndexError ELSE ValueError)
       ELSE [timestamp |-> f[1], satelliteId |-> f[2].val,
             red_high_limit |-> f[3].val, yellow_high_limit |-> f[4].val,
             yellow_low_limit |-> f[5].val, red_low_limit |-> f[6].val,
             raw_value |-> f[7].val, component |-> f[8]]

\* one iteration of the loop of process_file; an exception leaves the loop
process_file_lenient ==
    /\ status = "running"
    /\ pos <= Len(file)
    /\ LET line == file[pos]
       IN IF line.blank \/ IsError(parse_line(line))
             \/ parse_timestamp(parse_line(line).timestamp) = ValueError
          THEN pos' = pos + 1 /\ UNCHANGED <<readings, alerts, fed, out, status>>
          ELSE /\ process_telemetry(parse_line(line))
               /\ pos' = pos + 1
               /\ UNCHANGED status
    /\ UNCHANGED file
process_file ==
    /\ status = "running"
    /\ pos <= Len(file)
    /\ LET line == file[pos]
       IN IF line.blank
          THEN pos' = pos + 1 /\ UNCHANGED <<readings, alerts, fed, out, status>>
          ELSE IF IsError(parse_line(line))
          THEN status' = "aborted" /\ UNCHANGED <<readings, alerts, fed, out, pos>>
          ELSE IF parse_timestamp(parse_line(line).timestamp) = ValueError
          THEN status' = "aborted" /\ UNCHANGED <<readings, alerts, fed, out, pos>>
          ELSE /\ process_telemetry(parse_line(line))
               /\ pos' = pos + 1
               /\ UNCHANGED status
    /\ UNCHANGED file

\* print(monitor.get_alerts()) once process_file has returned
main_print ==
    /\ status = "running"
    /\ pos > Len(file)
    /\ get_alerts
    /\ status' = "printed"
    /\ UNCHANGED <<file, pos>>

-----------------------------------------------------------------------------
(* inputs                                                                  *)

Text(h, m, s, frac) == [ymd |-> <<2024, 1, 1>>, hms |-> <<h, m, s>>, frac |-> frac]

Ta == Text(0, 0, 0, <<>>)                   \* 20240101 00:00:00
Tb == Text(0, 0, 0, <<0, 0, 0, 4>>)         \* 20240101 00:00:00.0004
Tc == Text(0, 2, 0, <<0, 0, 0>>)            \* 20240101 00:02:00.000
Td == Text(0, 5, 0, <<0, 0, 0, 0, 0, 0>>)   \* 20240101 00:05:00.000000
Te == Text(0, 5, 0, <<0, 0, 0, 0, 0, 1>>)   \* 20240101 00:05:00.000001
Tf == Text(0, 11, 0, <<>>)                  \* 20240101 00:11:00

\* a parsed line: red high 4, yellow high 3, yellow low 2, red low 1
Line(ts, sat, val, comp) ==
    [timestamp |-> ts, satelliteId |-> sat,
     red_high_limit |-> 4, yellow_high_limit |-> 3,
     yellow_low_limit |-> 2, red_low_limit |-> 1,
     raw_value |-> val, component |-> comp]

Data ==
    {Line(t, 7, 0, BATT) : t \in {Ta, Tb, Tc, Td, Te}}
    \cup {Line(Tc, 7, 1, BATT), Line(Tc, 8, 0, BATT), Line(Tc, 7, 0, "GYRO"),
          Line(Tc, 7, 5, "GYRO")}
    \cup {Line(Ta, 7, 5, TSTAT), Line(Tc, 7, 5, TSTAT), Line(Tc, 7, 4, TSTAT)}

\* a parsed line with its own limits
LineL(rh, yh, yl, rl, val, comp) ==
    [timestamp |-> Tc, satelliteId |-> 7,
     red_high_limit |-> rh, yellow_high_limit |-> yh,
     yellow_low_limit |-> yl, red_low_limit |-> rl,
     raw_value |-> val, component |-> comp]

LimitData ==
    {LineL(9, 8, 4, 3, 2, BATT), LineL(9, 8, 3, 1, 2, BATT),
     LineL(9, 8, 1, 3, 2, BATT),
     LineL(4, 3, 1, 0, 5, TSTAT), LineL(6, 4, 1, 0, 5, TSTAT),
     LineL(1, 1, 3, 3, 2, "GYRO")}

RenderData ==
    {Line(t, 7, 0, BATT) :
        t \in {Ta,                                    \* 00:00:00
               Text(0, 0, 0, <<0, 0, 0, 6>>),         \* 00:00:00.0006
               Text(0, 0, 1, <<9, 9, 9, 6>>),         \* 00:00:01.9996
               Text(0, 0, 2, <<1, 2>>),               \* 00:00:02.12
               Text(0, 0, 3, <<9, 9, 9, 9, 9, 9>>)}}  \* 00:00:03.999999

KeyData ==
    {Line(Tc, 7, 0, BATT), Line(Ta, 7, 0, BATT), Line(Tc, 8, 0, BATT),
     Line(Tc, 7, 5, TSTAT)}

\* 20240101 00:02:00: the time of Tc in another text
Tc2 == Text(0, 2, 0, <<>>)

OrderData ==
    {Line(t, 7, 0, BATT) : t \in {Ta, Tc, Tc2, Td, Te}}
    \cup {Line(Ta, 7, 1, BATT)}

RunData ==
    {Line(t, 7, 0, BATT) : t \in {Ta, Tc, Td, Tf}}
    \cup {Line(Tc, 7, 1, BATT), Line(Tc, 7, 5, TSTAT)}

-----------------------------------------------------------------------------
(* specifications                                                          *)

Init ==
    /\ readings = <<>>
    /\ alerts = <<>>
    /\ fed = <<>>
    /\ out = <<>>
    /\ file = <<>>
    /\ pos = 1
    /\ status = "idle"

Ingest ==
    /\ Len(fed) < MaxReadings
    /\ \E data \in Data : process_telemetry(data)
    /\ UNCHANGED filevars

IngestRun ==
    /\ Len(fed) < MaxRun
    /\ \E data \in RunData : process_telemetry(data)
    /\ UNCHANGED filevars

Next == Ingest \/ (get_alerts /\ UNCHANGED filevars)

NextRun == IngestRun \/ (get_alerts /\ UNCHANGED filevars)

\* raw lines: the text of a number, and a line as split('|') sees it
Num(n) == [ok |-> TRUE, val |-> n]
NotANumber == [ok |-> FALSE, val |-> 0]

RawLine(ts, val, comp) ==
    [blank |-> FALSE,
     fields |-> <<ts, Num(7), Num(4), Num(3), Num(2), Num(1), val, comp>>]

BlankLine == [blank |-> TRUE, fields |-> <<>>]

\* 20240101 00:02:00.0000001 matches neither format
Tbad == Text(0, 2, 0, <<0, 0, 0, 0, 0, 0, 1>>)

RawLines ==
    {RawLine(Ta, Num(0), BATT), RawLine(Tc, Num(0), BATT), BlankLine,
     RawLine(Tc, NotANumber, BATT), RawLine(Tbad, Num(0), BATT),
     [blank |-> FALSE, fields |-> <<Tc, Num(7), Num(4), Num(3), Num(2), Num(1), Num(0)>>]}

RECURSIVE FilesOfLen(_)
FilesOfLen(n) ==
    IF n = 0 THEN {<<>>}
    ELSE {Append(f, l) : f \in FilesOfLen(n - 1), l \in RawLines}

Files == UNION {FilesOfLen(n) : n \in 1..MaxLines}

InitFile ==
    /\ readings = <<>>
    /\ alerts = <<>>
    /\ fed = <<>>
    /\ out = <<>>
    /\ file \in Files
    /\ pos = 1
    /\ status = "running"

NextFile == process_file \/ main_print

IngestLimits ==
    /\ Len(fed) < MaxLimits
    /\ \E data \in LimitData : process_telemetry(data)
    /\ UNCHANGED filevars

NextLimits == IngestLimits \/ (get_alerts /\ UNCHANGED filevars)

IngestRender ==
    /\ Len(fed) < MaxRender
    /\ \E data \in RenderData : process_telemetry(data)
    /\ UNCHANGED filevars

NextRender == IngestRender \/ (get_alerts /\ UNCHANGED filevars)

IngestKeys ==
    /\ Len(fed) < MaxKeys
    /\ \E data \in KeyData : process_telemetry(data)
    /\ UNCHANGED filevars

NextKeys == IngestKeys \/ (get_alerts /\ UNCHANGED filevars)

IngestOrder ==
    /\ Len(fed) < MaxOrder
    /\ \E data \in OrderData : process_telemetry(data)
    /\ UNCHANGED filevars

NextOrder == IngestOrder \/ (get_alerts /\ UNCHANGED filevars)

Spec == Init /\ [][Next]_vars

SpecOrder == Init /\ [][NextOrder]_vars

SpecKeys == Init /\ [][NextKeys]_vars

SpecRender == Init /\ [][NextRender]_vars

SpecLimits == Init /\ [][NextLimits]_vars

SpecFile == InitFile /\ [][NextFile]_vars

SpecRun == Init /\ [][NextRun]_vars

-----------------------------------------------------------------------------
(* vocabulary of the properties                                            *)

KnownKeys == {k \in DOMAIN readings : k[2] \in {TSTAT, BATT}}

AlertsOf(k) ==
    SelectSeq(alerts, LAMBDA a : a.satelliteId = k[1] /\ a.component = k[2])

HasAlert(k) == AlertsOf(k) # <<>>

NoDup(s) == \A i, j \in 1..Len(s) : i # j => s[i] # s[j]

IsPrefix(s, t) == Len(s) <= Len(t) /\ SubSeq(t, 1, Len(s)) = s

\* strict comparison of a reading against its own limit
StrictlyViolating(k, r) ==
    \/ k[2] = TSTAT /\ r.value > r.limit
    \/ k[2] = BATT /\ r.value < r.limit

ViolatingIdx(k) ==
    {i \in 1..Len(readings[k]) : StrictlyViolating(k, readings[k][i])}

\* a time difference of 5 minutes plus 1 microsecond or more
Exceeds(td) ==
    \/ td.days > 0
    \/ td.days = 0 /\ td.seconds > 300
    \/ td.days = 0 /\ td.seconds = 300 /\ td.microseconds >= 1

Span(r2, r1) == DtSub(r2.timestamp, r1.timestamp)

\* three distinct violating readings, every two of them within 5 minutes
ClusterTriple(k) ==
    \E i, j, l \in ViolatingIdx(k) :
        /\ i < j /\ j < l
        /\ \A x, y \in {i, j, l} : ~Exceeds(Span(readings[k][x], readings[k][y]))

\* the key's violating readings in ascending timestamp order
SortedViolatingIn(rd, k) == SortByTimestamp(Filter(k[2], Hist(rd, k)))

SortedViolating(k) == SortedViolatingIn(readings, k)

Qualifying(v) == {i \in 1..(Len(v) - 2) : ~Exceeds(Span(v[i + 2], v[i]))}

MinOf(S) == CHOOSE x \in S : \A y \in S : x <= y

Candidate(k, v) ==
    [satelliteId |-> k[1],
     severity |-> IF k[2] = TSTAT THEN "RED HIGH" ELSE "RED LOW",
     component |-> k[2],
     timestamp |-> v[MinOf(Qualifying(v))].original_timestamp]

Ascending(v) ==
    \A i, j \in 1..Len(v) : i < j => Span(v[j], v[i]).days >= 0

-----------------------------------------------------------------------------
(* properties                                                              *)

\* C1: a TSTAT or BATT key has an alert iff its history holds three distinct
\* violating readings whose earliest and latest timestamps are at most 5
\* minutes apart, in any arrival order; the scan of the pairs
\* (sorted[i], sorted[i+2]) finds a cluster iff such a triple exists.
C1_AlertIffCluster ==
    \A k \in KnownKeys :
        /\ HasAlert(k) <=> ClusterTriple(k)
        /\ (Qualifying(SortedViolating(k)) # {}) <=> ClusterTriple(k)

\* a key alerted although its violating readings arrived out of order
C1_Witness ==
    \E k \in KnownKeys :
        /\ HasAlert(k)
        /\ ClusterTriple(k)
        /\ ~Ascending(Filter(k[2], readings[k]))

\* C2: the alert list never holds two alerts equal in satelliteId, severity,
\* component and original timestamp text, and an ingest whose detected
\* cluster's alert is already present leaves the alert list unchanged.
C2_NoDuplicateAlerts ==
    [][/\ NoDup(alerts')
       /\ fed' # fed =>
            \A k \in {KeyOf(fed'[Len(fed')])} :
            \A v \in {SortedViolatingIn(readings', k)} :
                (k[2] \in {TSTAT, BATT} /\ Qualifying(v) # {}
                 /\ Candidate(k, v) \in Range(alerts)) => alerts' = alerts]_vars

\* a fourth reading re-detected the cluster of the first three
C2_Witness ==
    \E k \in KnownKeys :
        /\ Len(readings[k]) >= 4
        /\ {1, 2, 3} \subseteq ViolatingIdx(k)
        /\ \A x, y \in 1..3 : ~Exceeds(Span(readings[k][x], readings[k][y]))
        /\ Len(AlertsOf(k)) = 1

\* C3: the output of get_alerts never contains two records equal in
\* satelliteId, severity, component and rendered timestamp.
C3_OutputNoDuplicates == NoDup(out)

\* C4: only readings strictly beyond their own limit count: a key with
\* fewer than three strictly violating readings has no alert.
C4_StrictThreshold ==
    \A k \in DOMAIN readings :
        Cardinality(ViolatingIdx(k)) < 3 => ~HasAlert(k)

\* three readings within the window, one of them exactly at its limit
C4_Witness ==
    \E k \in KnownKeys :
        /\ Len(readings[k]) >= 3
        /\ \E i \in 1..Len(readings[k]) :
               readings[k][i].value = readings[k][i].limit
        /\ Cardinality(ViolatingIdx(k)) = 2
        /\ \A x, y \in 1..Len(readings[k]) :
               ~Exceeds(Span(readings[k][x], readings[k][y]))
        /\ ~HasAlert(k)

\* C5: a pair (sorted[i], sorted[i+2]) exactly 5 minutes apart qualifies
\* (the key is alerted); when every such pair is 5 minutes plus 1
\* microsecond or more apart none qualifies (the key has no alert).
C5_WindowInclusive ==
    \A k \in KnownKeys :
        LET v == SortedViolating(k)
        IN /\ (\E i \in 1..(Len(v) - 2) : Span(v[i + 2], v[i]) = time_window)
                => HasAlert(k)
           /\ (\A i \in 1..(Len(v) - 2) : Exceeds(Span(v[i + 2], v[i])))
                => ~HasAlert(k)

\* a key alerted by a pair exactly 5 minutes apart, no pair being closer
C5_Witness ==
    \E k \in KnownKeys :
        LET v == SortedViolating(k)
        IN /\ Len(v) >= 3
           /\ \A i \in 1..(Len(v) - 2) :
                  Span(v[i + 2], v[i]) = time_window
           /\ HasAlert(k)

\* C6: an ingest that finds a qualifying cluster reports the original
\* timestamp text of sorted[i] for the smallest qualifying i and nothing
\* else, so each ingest adds at most one alert.
C6_EarliestClusterWins ==
    [][fed' # fed =>
         \A k \in {KeyOf(fed'[Len(fed')])} :
         \A v \in {SortedViolatingIn(readings', k)} :
             IF k[2] \in {TSTAT, BATT} /\ Qualifying(v) # {}
             THEN /\ Candidate(k, v) \in Range(alerts')
                  /\ alerts' \in {alerts, Append(alerts, Candidate(k, v))}
             ELSE alerts' = alerts]_vars

\* the reported cluster does not start at the earliest violating reading
C6_Witness ==
    \E k \in KnownKeys :
        LET v == SortedViolating(k)
        IN /\ Qualifying(v) # {}
           /\ MinOf(Qualifying(v)) > 1
           /\ Cardinality(Qualifying(v)) > 1
           /\ AlertsOf(k) = <<Candidate(k, v)>>

\* C7: a violation run of one key that spans several independent 5-minute
\* clusters has yielded several alerts.
C7_MultipleAlertsOverTime ==
    \A k \in KnownKeys :
        LET v == SortedViolating(k)
        IN (\E i, j \in Qualifying(v) :
                j >= i + 3 /\ Exceeds(Span(v[j], v[i + 2])))
             => Len(AlertsOf(k)) >= 2

\* C8: n >= 3 violating readings of a key, all within one 5-minute span and
\* ingested in ascending timestamp order, leave exactly one alert for the
\* key, carrying the timestamp of the earliest violating reading.
C8_OneAlertPerSpan ==
    \A k \in KnownKeys :
        LET hv == Filter(k[2], readings[k])
        IN (/\ Len(hv) >= 3
            /\ Ascending(hv)
            /\ ~Exceeds(Span(hv[Len(hv)], hv[1])))
             => AlertsOf(k) =
                  <<[satelliteId |-> k[1],
                     severity |-> IF k[2] = TSTAT THEN "RED HIGH" ELSE "RED LOW",
                     component |-> k[2],
                     timestamp |-> hv[1].original_timestamp]>>

\* five violating readings in ascending order within one span, one alert
C8_Witness ==
    \E k \in KnownKeys :
        LET hv == Filter(k[2], readings[k])
        IN /\ Len(hv) >= 5
           /\ Ascending(hv)
           /\ ~Exceeds(Span(hv[Len(hv)], hv[1]))
           /\ Len(AlertsOf(k)) = 1

FedOf(k) == SelectSeq(fed, LAMBDA d : KeyOf(d) = k)

\* C9: no alert ever names a component other than TSTAT and BATT, and the
\* history of such a key still holds every reading ingested for it.
C9_UnknownComponentSilent ==
    /\ \A i \in 1..Len(alerts) : alerts[i].component \in {TSTAT, BATT}
    /\ \A i \in 1..Len(fed) :
           LET k == KeyOf(fed[i])
           IN k[2] \notin {TSTAT, BATT} =>
                /\ k \in DOMAIN readings
                /\ Len(readings[k]) = Len(FedOf(k))
                /\ \A j \in 1..Len(readings[k]) :
                       /\ readings[k][j].original_timestamp = FedOf(k)[j].timestamp
                       /\ readings[k][j].value = FedOf(k)[j].raw_value

\* three readings of an unknown component, below and above every limit
C9_Witness ==
    \E k \in DOMAIN readings :
        /\ k[2] \notin {TSTAT, BATT}
        /\ Len(readings[k]) >= 3
        /\ \E i \in 1..Len(readings[k]) :
               readings[k][i].value < readings[k][i].limit
        /\ ~HasAlert(k)

\* C10: the alert list before a step is a prefix of the alert list after it.
C10_AlertsAppendOnly == [][IsPrefix(alerts, alerts')]_vars

\* a second alert was appended behind the first
C10_Witness == Len(alerts) >= 2

\* C11: a process_telemetry call appends exactly one reading, the one it was
\* given, to the end of the history of its own key and leaves every other
\* history unchanged; no other step changes a history, so no reading is
\* evicted or reordered.
C11_HistoryAppendOnly ==
    [][IF fed' # fed
       THEN \A d \in {fed'[Len(fed')]} : \A k \in {KeyOf(d)} :
            \A old \in {Hist(readings, k)} :
                /\ DOMAIN readings' = DOMAIN readings \cup {k}
                /\ Len(readings'[k]) = Len(old) + 1
                /\ SubSeq(readings'[k], 1, Len(old)) = old
                /\ readings'[k][Len(old) + 1].original_timestamp = d.timestamp
                /\ readings'[k][Len(old) + 1].value = d.raw_value
                /\ \A k2 \in DOMAIN readings \ {k} : readings'[k2] = readings[k2]
       ELSE readings' = readings]_vars

\* an alerted key whose history still holds a non-violating reading and its
\* violating readings in arrival order, not in timestamp order
C11_Witness ==
    \E k \in KnownKeys :
        /\ HasAlert(k)
        /\ ~Ascending(readings[k])
        /\ Cardinality(ViolatingIdx(k)) < Len(readings[k])

\* a non-blank line with a missing field, a non-numeric numeric field or a
\* timestamp in neither accepted format
Malformed(line) ==
    /\ ~line.blank
    /\ \/ Len(line.fields) < 8
       \/ \E i \in 2..7 : i <= Len(line.fields) /\ ~line.fields[i].ok
       \/ LET ts == line.fields[1]
          IN ~(Len(ts.frac) <= 6 /\ ts.hms[1] < 24 /\ ts.hms[2] < 60 /\ ts.hms[3] < 60)

\* C12: a malformed non-blank line aborts the run and changes neither a
\* history nor the alert list; after the abort nothing more is ingested and
\* nothing is printed; a blank line is skipped without changing the tracker.
C12_MalformedLineAborts ==
    [][/\ status # "aborted"
       /\ (status = "running" /\ pos <= Len(file)) =>
            \A line \in {file[pos]} :
                IF line.blank
                THEN pos' = pos + 1 /\ UNCHANGED <<readings, alerts, fed, out, status>>
                ELSE IF Malformed(line)
                THEN status' = "aborted" /\ UNCHANGED <<readings, alerts, fed, out>>
                ELSE /\ Len(fed') = Len(fed) + 1
                     /\ pos' = pos + 1
                     /\ status' = "running"
       /\ status' = "printed" =>
            \A i \in 1..Len(file) : ~Malformed(file[i])]_vars

\* a run aborted after a skipped blank line and an ingested reading, with
\* lines left unread and nothing printed
C12_Witness ==
    /\ status = "aborted"
    /\ fed # <<>>
    /\ \E i \in 1..(pos - 1) : file[i].blank
    /\ pos < Len(file)
    /\ out = <<>>

\* the same line with its yellow limits blanked
YellowFree(d) == [d EXCEPT !.yellow_high_limit = 0, !.yellow_low_limit = 0]

\* C13: the limit recorded for a reading is the red-high limit of its line
\* for TSTAT and the red-low limit for every other component, and the alert
\* list is the one the same lines give with their yellow limits blanked.
C13_RedLimitOnly ==
    /\ \A k \in DOMAIN readings : \A i \in 1..Len(readings[k]) :
           readings[k][i].limit =
               IF k[2] = TSTAT THEN FedOf(k)[i].red_high_limit
               ELSE FedOf(k)[i].red_low_limit
    /\ alerts = Replay(Fresh, [i \in 1..Len(fed) |-> YellowFree(fed[i])]).alerts

\* an alerted BATT key that also holds a reading between its red-low and
\* yellow-low limits
C13_Witness ==
    \E k \in KnownKeys :
        /\ k[2] = BATT
        /\ HasAlert(k)
        /\ \E i \in 1..Len(FedOf(k)) :
               /\ FedOf(k)[i].raw_value < FedOf(k)[i].yellow_low_limit
               /\ FedOf(k)[i].raw_value >= FedOf(k)[i].red_low_limit

RECURSIVE Pow10(_)
Pow10(n) == IF n = 0 THEN 1 ELSE 10 * Pow10(n - 1)

\* the microseconds a timestamp text denotes
TextMicros(text) ==
    IF text.frac = <<>> THEN 0
    ELSE LET Sum[i \in 0..Len(text.frac)] ==
                 IF i = 0 THEN 0 ELSE Sum[i - 1] + text.frac[i] * Pow10(6 - i)
         IN Sum[Len(text.frac)]

\* C14: every rendered timestamp keeps the date and the time of day of the
\* alert's text and shows floor(microseconds / 1000) as its three
\* millisecond digits: truncated, never rounded, 000 for a whole-second text.
C14_MillisTruncated ==
    \A i \in 1..Len(out) :
        LET text == alerts[i].timestamp
            r == out[i].timestamp
        IN /\ r.date = text.ymd
           /\ r.time = text.hms
           /\ Len(r.millis) = 3
           /\ \A j \in 1..3 : r.millis[j] \in 0..9
           /\ 100 * r.millis[1] + 10 * r.millis[2] + r.millis[3]
                  = TextMicros(text) \div 1000
           /\ text.frac = <<>> => r.millis = <<0, 0, 0>>

\* the output holds an alert of a whole-second text and one whose text has
\* half a millisecond or more beyond its millisecond digits
C14_Witness ==
    \E i, j \in 1..Len(out) :
        /\ alerts[i].timestamp.frac = <<>>
        /\ TextMicros(alerts[j].timestamp) % 1000 >= 500

\* C15: whatever the interleaving of the keys, the alerts of a key, in
\* emission order, and its history are those obtained by ingesting only the
\* lines of that key in the same relative order.
C15_KeysIndependent ==
    \A k \in DOMAIN readings :
        \A alone \in {Replay(Fresh, FedOf(k))} :
            /\ AlertsOf(k) = alone.alerts
            /\ readings[k] = alone.readings[k]

\* two alerted keys whose lines were interleaved and whose alerts carry the
\* same timestamp text
C15_Witness ==
    \E k1, k2 \in KnownKeys :
        /\ k1 # k2
        /\ HasAlert(k1) /\ HasAlert(k2)
        /\ AlertsOf(k1)[1].timestamp = AlertsOf(k2)[1].timestamp
        /\ \E i, j, l \in 1..Len(fed) :
               /\ i < j /\ j < l
               /\ KeyOf(fed[i]) = k1 /\ KeyOf(fed[j]) = k2 /\ KeyOf(fed[l]) = k1

AlertsOfIn(al, k) ==
    SelectSeq(al, LAMBDA a : a.satelliteId = k[1] /\ a.component = k[2])

\* the time of a timestamp text is strictly earlier than that of another
Earlier(t1, t2) ==
    /\ DtLeq(parse_timestamp(t1), parse_timestamp(t2))
    /\ parse_timestamp(t1) # parse_timestamp(t2)

\* C16: the alerts of a key carry strictly decreasing times in emission
\* order; a key that has an alert gains another only on the ingest of a
\* violating reading that is earlier than a violating reading already in the
\* history, and the new alert is the earliest qualifying cluster, strictly
\* earlier than every alert of the key; a key whose violating readings
\* arrived in non-decreasing time order has at most one alert.
C16_AlertsMoveEarlier ==
    [][fed' # fed =>
         \A d \in {fed'[Len(fed')]} : \A k \in {KeyOf(d)} :
         \A before \in {AlertsOf(k)} : \A after \in {AlertsOfIn(alerts', k)} :
         \A old \in {Filter(k[2], Hist(readings, k))} :
         \A new \in {Filter(k[2], readings'[k])} :
             /\ \A i, j \in 1..Len(after) :
                    i < j => Earlier(after[j].timestamp, after[i].timestamp)
             /\ (before # <<>> /\ after # before) =>
                    /\ Len(new) = Len(old) + 1
                    /\ new[Len(new)].original_timestamp = d.timestamp
                    /\ \E i \in 1..Len(old) :
                           Earlier(d.timestamp, old[i].original_timestamp)
                    /\ after = Append(before, Candidate(k, SortByTimestamp(new)))
                    /\ \A i \in 1..Len(before) :
                           Earlier(after[Len(after)].timestamp, before[i].timestamp)
             /\ Ascending(new) => Len(after) <= 1]_vars

\* a key with two alerts, the second raised by a reading that arrived late
C16_Witness ==
    \E k \in KnownKeys :
        /\ Len(AlertsOf(k)) >= 2
        /\ ~Ascending(Filter(k[2], readings[k]))
        /\ \E i, j \in ViolatingIdx(k) :
               /\ readings[k][i].timestamp = readings[k][j].timestamp
               /\ readings[k][i].original_timestamp # readings[k][j].original_timestamp

\* C17: every alert names a TSTAT or BATT key, is RED HIGH exactly for TSTAT
\* and RED LOW exactly for BATT, and carries the original timestamp text of
\* a violating reading of that key's history which has two further violating
\* readings not before it and at most 5 minutes after it.
C17_AlertsBackedByHistory ==
    \A n \in 1..Len(alerts) :
        \A a \in {alerts[n]} : \A k \in {<<a.satelliteId, a.component>>} :
            /\ a.component \in {TSTAT, BATT}
            /\ k \in DOMAIN readings
            /\ (a.severity = "RED HIGH") <=> (a.component = TSTAT)
            /\ (a.severity = "RED LOW") <=> (a.component = BATT)
            /\ \E x \in ViolatingIdx(k) :
                   /\ readings[k][x].original_timestamp = a.timestamp
                   /\ \E y, z \in ViolatingIdx(k) \ {x} :
                          /\ y # z
                          /\ \A w \in {y, z} :
                                 /\ Span(readings[k][w], readings[k][x]).days >= 0
                                 /\ ~Exceeds(Span(readings[k][w], readings[k][x]))

\* an alert whose reading is not the earliest violating reading of its key
C17_Witness ==
    \E n \in 1..Len(alerts) :
        \E k \in KnownKeys : \E x, y \in ViolatingIdx(k) :
            /\ k = <<alerts[n].satelliteId, alerts[n].component>>
            /\ readings[k][x].original_timestamp = alerts[n].timestamp
            /\ Span(readings[k][y], readings[k][x]).days < 0
            /\ Len(AlertsOf(k)) = 1

====
